---- MODULE Spec2Model ----
(***************************************************************************)
(* Model of scripts/testdata.py: a linear script that runs four queries    *)
(* on one database connection and prints one MERGE statement per row.      *)
(* Text is a sequence of one-character strings; a column value is a        *)
(* Python value (None, an int or a str).                                    *)
(***************************************************************************)
EXTENDS Integers, Sequences, FiniteSets, TLC

VARIABLES pc, db, res, idx, val, out, exc

vars == <<pc, db, res, idx, val, out, exc>>

----------------------------------------------------------------------------
(* Bounds                                                                  *)

\* longest free-form text drawn for a single-row database
MaxLen == 3
\* largest total number of rows in a multi-row database
MaxTotalRows == 5

----------------------------------------------------------------------------
(* Characters and Python values                                            *)

NL == "\n"
TAB == "\t"
SQ == "'"
DQ == "\""
BS == "\\"

\* the characters free-form text is drawn from
Alphabet == {NL, TAB, SQ, DQ, BS, "a"}

None == [t |-> "None"]
PyInt(n) == [t |-> "int", v |-> n]
PyStr(s) == [t |-> "str", v |-> s]
Unbound == [t |-> "unbound"]

IsStr(x) == x.t = "str"

RECURSIVE Digits(_)
\* str(n) of a non-negative int: its decimal digits
Digits(n) ==
    LET d == <<"0", "1", "2", "3", "4", "5", "6", "7", "8", "9">>
    IN  IF n < 10 THEN <<d[n + 1]>> ELSE Digits(n \div 10) \o <<d[(n % 10) + 1]>>

\* Format with a None shown as the empty text
FormatNoneEmpty(x) ==
    CASE x.t = "str" -> x.v
      [] x.t = "int" -> Digits(x.v)
      [] x.t = "None" -> <<>>

\* what an f-string replacement field {x} inserts: format(x, "") = str(x)
Format(x) ==
    CASE x.t = "str" -> x.v
      [] x.t = "int" -> Digits(x.v)
      [] x.t = "None" -> <<"N", "o", "n", "e">>

----------------------------------------------------------------------------
(* str.replace and the escaping chain                                      *)

IsPrefixOf(p, s) == Len(p) <= Len(s) /\ SubSeq(s, 1, Len(p)) = p

RECURSIVE Replace(_, _, _)
\* s.replace(old, new) for a non-empty old: leftmost non-overlapping matches
Replace(s, old, new) ==
    IF Len(s) < Len(old) THEN s
    ELSE IF IsPrefixOf(old, s)
         THEN new \o Replace(SubSeq(s, Len(old) + 1, Len(s)), old, new)
         ELSE <<Head(s)>> \o Replace(Tail(s), old, new)

\* ReplacePairs with the tab pair's replacement copied from the newline pair
ReplacePairsTabAsNewline ==
    << <<  <<NL>>,  <<BS, "n">> >>,
       <<  <<TAB>>, <<BS, "n">> >>,
       <<  <<SQ>>,  <<SQ>>      >>,
       <<  <<DQ>>,  <<BS, DQ>>  >> >>

\* the four (old, new) argument pairs of the chain, as Python decodes the
\* literals: "\n","\\n"  "\t","\\t"  "'","\'"  "\"","\\\""
\* ("\'" is the one character ': the backslash is consumed by the literal)
ReplacePairs ==
    << <<  <<NL>>,  <<BS, "n">> >>,
       <<  <<TAB>>, <<BS, "t">> >>,
       <<  <<SQ>>,  <<SQ>>      >>,
       <<  <<DQ>>,  <<BS, DQ>>  >> >>

\* Escape without the tab replacement
EscapeNoTab(s) ==
    LET s1 == Replace(s,  <<NL>>, <<BS, "n">>)
        s3 == Replace(s1, <<SQ>>, <<SQ>>)
    IN  Replace(s3, <<DQ>>, <<BS, DQ>>)

\* Escape followed by a fifth replacement that doubles every backslash
EscapeBackslashLast(s) ==
    LET s1 == Replace(s,  <<NL>>, <<BS, "n">>)
        s2 == Replace(s1, <<TAB>>, <<BS, "t">>)
        s3 == Replace(s2, <<SQ>>, <<SQ>>)
        s4 == Replace(s3, <<DQ>>, <<BS, DQ>>)
    IN  Replace(s4, <<BS>>, <<BS, BS>>)

\* val.replace(..).replace(..).replace(..).replace(..)
Escape(s) ==
    LET p  == ReplacePairs
        s1 == Replace(s,  p[1][1], p[1][2])
        s2 == Replace(s1, p[2][1], p[2][2])
        s3 == Replace(s2, p[3][1], p[3][2])
    IN  Replace(s3, p[4][1], p[4][2])

\* Body with a single newline between title and header
BodyOneNewline(title, header) == title \o <<NL>> \o header

\* row[1] + "\n\n" + row[2]
Body(title, header) == title \o <<NL, NL>> \o header

----------------------------------------------------------------------------
(* The four f-strings                                                      *)

\* f"MERGE (:Tag{{extId='{id}', value='{val}'}})"
fTag(id, v) ==
    <<"M", "E", "R", "G", "E", " ", "(", ":", "T", "a", "g", "{", "e", "x", "t", "I", "d", "=", "'">>
    \o Format(id)
    \o <<"'", ",", " ", "v", "a", "l", "u", "e", "=", "'">>
    \o Format(v)
    \o <<"'", "}", ")">>

\* f"MERGE (:Identity:User{{extId='{id}', email='{email}', handle='{handle}'}})"
fIdentity(id, email, handle) ==
    <<"M", "E", "R", "G", "E", " ", "(", ":", "I", "d", "e", "n", "t", "i", "t", "y", ":", "U", "s", "e", "r", "{", "e", "x", "t", "I", "d", "=", "'">>
    \o Format(id)
    \o <<"'", ",", " ", "e", "m", "a", "i", "l", "=", "'">>
    \o Format(email)
    \o <<"'", ",", " ", "h", "a", "n", "d", "l", "e", "=", "'">>
    \o Format(handle)
    \o <<"'", "}", ")">>

\* f"""MERGE (:Identity:User{{extId='{user_id}'}})-[posted{{created_at:'{created_at}'}}]->
\*     (:Post{{extId='{id}', value='{val}'}})-[is_tagged_with]->(:Tag{{extId: '{tag_id}'}})"""
fDiscussion(user_id, created_at, id, v, tag_id) ==
    <<"M", "E", "R", "G", "E", " ", "(", ":", "I", "d", "e", "n", "t", "i", "t", "y", ":", "U", "s", "e", "r", "{", "e", "x", "t", "I", "d", "=", "'">>
    \o Format(user_id)
    \o <<"'", "}", ")", "-", "[", "p", "o", "s", "t", "e", "d", "{", "c", "r", "e", "a", "t", "e", "d", "_", "a", "t", ":", "'">>
    \o Format(created_at)
    \o <<"'", "}", "]", "-", ">", "(", ":", "P", "o", "s", "t", "{", "e", "x", "t", "I", "d", "=", "'">>
    \o Format(id)
    \o <<"'", ",", " ", "v", "a", "l", "u", "e", "=", "'">>
    \o Format(v)
    \o <<"'", "}", ")", "-", "[", "i", "s", "_", "t", "a", "g", "g", "e", "d", "_", "w", "i", "t", "h", "]", "-", ">", "(", ":", "T", "a", "g", "{", "e", "x", "t", "I", "d", ":", " ", "'">>
    \o Format(tag_id)
    \o <<"'", "}", ")">>

\* f"""MERGE (:Identity:User{{extId='{user_id}'}})-[posted{{created_at:'{created_at}'}}]->
\*     (:Post{{extId='{id}', inReplyToExtId='{in_reply_to_id}', value='{val}'}})"""
fPost(user_id, created_at, id, in_reply_to_id, v) ==
    <<"M", "E", "R", "G", "E", " ", "(", ":", "I", "d", "e", "n", "t", "i", "t", "y", ":", "U", "s", "e", "r", "{", "e", "x", "t", "I", "d", "=", "'">>
    \o Format(user_id)
    \o <<"'", "}", ")", "-", "[", "p", "o", "s", "t", "e", "d", "{", "c", "r", "e", "a", "t", "e", "d", "_", "a", "t", ":", "'">>
    \o Format(created_at)
    \o <<"'", "}", "]", "-", ">", "(", ":", "P", "o", "s", "t", "{", "e", "x", "t", "I", "d", "=", "'">>
    \o Format(id)
    \o <<"'", ",", " ", "i", "n", "R", "e", "p", "l", "y", "T", "o", "E", "x", "t", "I", "d", "=", "'">>
    \o Format(in_reply_to_id)
    \o <<"'", ",", " ", "v", "a", "l", "u", "e", "=", "'">>
    \o Format(v)
    \o <<"'", "}", ")">>

----------------------------------------------------------------------------
(* The statement each loop body prints for one row                         *)

\* TagLine with the escaping chain applied to the tag value
TagLineEscaped(row) ==
    fTag(row[1], IF IsStr(row[2]) THEN PyStr(Escape(row[2].v)) ELSE row[2])

\* tag loop: id = row[0]; val = row[1]
TagLine(row) == fTag(row[1], row[2])

\* identity loop: id, email, handle = row[0], row[1], row[2]
IdentityLine(row) == fIdentity(row[1], row[2], row[3])

\* row[1] + "\n\n" + row[2] raises TypeError unless both operands are str
DiscussionOk(row) == IsStr(row[2]) /\ IsStr(row[3])

\* val after the discussion loop's concatenation and escaping
DiscussionVal(row) == PyStr(Escape(Body(row[2].v, row[3].v)))

\* discussion loop: id, tag_id, user_id, created_at = row[0], row[3], row[4], row[5]
DiscussionLine(row) == fDiscussion(row[5], row[6], row[1], DiscussionVal(row), row[4])

\* val.replace raises AttributeError unless val is a str
PostOk(row) == IsStr(row[2])

\* val after the post loop's escaping
PostVal(row) == PyStr(Escape(row[2].v))

\* PostLine with the post id and the reply target exchanged
PostLineSwappedIds(row) == fPost(row[3], row[4], row[5], row[1], PostVal(row))

\* post loop: id, user_id, created_at, in_reply_to_id = row[0], row[2], row[3], row[4]
PostLine(row) == fPost(row[3], row[4], row[1], row[5], PostVal(row))

----------------------------------------------------------------------------
(* The row source                                                          *)

\* "limit 10" of the user, discussion and post queries
Limit == 10

Min(a, b) == IF a < b THEN a ELSE b

\* the rows a query with "limit n" delivers
Take(rows, n) == SubSeq(rows, 1, Min(n, Len(rows)))

NoExc == [type |-> "none", stream |-> 0, row |-> 0]
Raised(type, stream, row) == [type |-> type, stream |-> stream, row |-> row]

----------------------------------------------------------------------------
(* Databases the script is run on                                          *)

RECURSIVE TextsOfLen(_)
TextsOfLen(n) ==
    IF n = 0 THEN {<<>>}
    ELSE {<<c>> \o s : c \in Alphabet, s \in TextsOfLen(n - 1)}

\* every text over Alphabet of at most n characters
Texts(n) == UNION {TextsOfLen(k) : k \in 0..n}

\* a text column: any short text, or NULL
TextVals == {PyStr(s) : s \in Texts(MaxLen)} \cup {None}

\* an id or timestamp column: ints, NULL, and irregular text
IdSample == {PyInt(7), PyInt(101), None, PyStr(<<TAB>>), PyStr(<<NL>>)}

Date0 == PyStr(<<"2", "0", "2", "4", "-", "0", "1", "-", "0", "1">>)
General == PyStr(<<"G", "e", "n", "e", "r", "a", "l">>)
Email0 == PyStr(<<"a", "@", "b", ".", "c", "o", "m">>)
Alice == PyStr(<<"a", "l", "i", "c", "e">>)

\* row with column k replaced by x
With(row, k, x) == [row EXCEPT ![k] = x]

HandleSample == {Alice, None, PyStr(<<DQ>>)}
HeaderSample == {<<>>, <<"H">>, <<SQ>>, <<NL>>}

NoRows == [folder |-> <<>>, user |-> <<>>, discussion |-> <<>>, post |-> <<>>]

\* the database holding the single row r in the given table
OneFolder(r) == [NoRows EXCEPT !.folder = <<r>>]
OneUser(r) == [NoRows EXCEPT !.user = <<r>>]
OneDiscussion(r) == [NoRows EXCEPT !.discussion = <<r>>]
OnePost(r) == [NoRows EXCEPT !.post = <<r>>]

\* rows the multi-row databases are built from; the second discussion row
\* has a NULL title and the second post row a NULL text
FolderSample == {<<PyInt(7), General>>, <<PyInt(8), PyStr(<<SQ>>)>>}
UserSample == {<<PyInt(3), Email0, Alice>>, <<PyInt(4), None, Alice>>}
DiscussionSample ==
    {<<PyInt(55), PyStr(<<"T">>), PyStr(<<"H">>), PyInt(7), PyInt(3), Date0>>,
     <<PyInt(56), None, PyStr(<<"H">>), PyInt(7), PyInt(3), Date0>>}
PostSample ==
    {<<PyInt(101), PyStr(<<"a", NL, "a">>), PyInt(3), Date0, PyInt(55)>>,
     <<PyInt(102), None, PyInt(3), Date0, PyInt(55)>>}

Start ==
    /\ pc = "q_folder"
    /\ res = <<>>
    /\ idx = 0
    /\ val = Unbound
    /\ out = <<>>
    /\ exc = NoExc

\* the script started on a database of at most MaxTotalRows rows
Init ==
    /\ \E nf \in 0..MaxTotalRows : \E nu \in 0..(MaxTotalRows - nf) :
       \E nd \in 0..(MaxTotalRows - nf - nu) : \E np \in 0..(MaxTotalRows - nf - nu - nd) :
       \E f \in [1..nf -> FolderSample], u \in [1..nu -> UserSample],
          d \in [1..nd -> DiscussionSample], p \in [1..np -> PostSample] :
            db = [folder |-> f, user |-> u, discussion |-> d, post |-> p]
    /\ Start

\* the script started on a database holding one row: a folder, a user, a
\* discussion with any title, a discussion with irregular or NULL columns,
\* or a post
InitOneRow ==
    /\ \/ \E id \in IdSample, v \in TextVals :
            db = OneFolder(<<id, v>>)
       \/ \E id \in IdSample, e \in TextVals, h \in HandleSample :
            db = OneUser(<<id, e, h>>)
       \/ \E t \in Texts(MaxLen), h \in HeaderSample :
            db = OneDiscussion(<<PyInt(55), PyStr(t), PyStr(h), PyInt(7), PyInt(3), Date0>>)
       \/ \E t \in {None, PyStr(<<"T">>)}, h \in {None, PyStr(<<"H">>)},
             k \in {1, 4, 5, 6}, x \in IdSample :
            db = OneDiscussion(With(<<PyInt(55), t, h, PyInt(7), PyInt(3), Date0>>, k, x))
       \/ \E t \in TextVals, k \in {1, 3, 4, 5}, x \in IdSample :
            db = OnePost(With(<<PyInt(101), t, PyInt(3), Date0, PyInt(55)>>, k, x))
    /\ Start

----------------------------------------------------------------------------
(* Steps of the script                                                     *)

\* position after a query delivered rows
AfterFetch(rows, loop, next) == IF rows = <<>> THEN next ELSE loop

\* AfterRow leaving the loop one row early
AfterRowSkipsLast(loop, next) == IF idx + 2 >= Len(res) THEN next ELSE loop

\* position after the loop body ran on row idx + 1
AfterRow(loop, next) == IF idx + 1 = Len(res) THEN next ELSE loop

\* an uncaught exception ends the run
Abort(type, stream, row) ==
    /\ pc' = "aborted"
    /\ exc' = Raised(type, stream, row)

\* the stream a query position belongs to
StreamOf(p) ==
    CASE p = "q_folder" -> 1
      [] p = "q_user" -> 2
      [] p = "q_discussion" -> 3
      [] p = "q_post" -> 4

\* curs.execute("select id, description from folder"); res = curs.fetchall()
QueryFolder ==
    /\ pc = "q_folder"
    /\ res' = db.folder
    /\ idx' = 0
    /\ pc' = AfterFetch(res', "tags", "q_user")
    /\ UNCHANGED <<db, val, out, exc>>

\* curs.execute("select id, email, username from user limit 10"); res = curs.fetchall()
QueryUser ==
    /\ pc = "q_user"
    /\ res' = Take(db.user, Limit)
    /\ idx' = 0
    /\ pc' = AfterFetch(res', "identities", "q_discussion")
    /\ UNCHANGED <<db, val, out, exc>>

\* curs.execute("select ... from discussion limit 10"); res = curs.fetchall()
QueryDiscussion ==
    /\ pc = "q_discussion"
    /\ res' = Take(db.discussion, Limit)
    /\ idx' = 0
    /\ pc' = AfterFetch(res', "discussions", "q_post")
    /\ UNCHANGED <<db, val, out, exc>>

\* curs.execute("select ... from post limit 10"); res = curs.fetchall()
QueryPost ==
    /\ pc = "q_post"
    /\ res' = Take(db.post, Limit)
    /\ idx' = 0
    /\ pc' = AfterFetch(res', "posts", "done")
    /\ UNCHANGED <<db, val, out, exc>>

\* cursor(), execute() or fetchall() raises: nothing catches it
QueryFails ==
    /\ pc \in {"q_folder", "q_user", "q_discussion", "q_post"}
    /\ Abort("DatabaseError", StreamOf(pc), 0)
    /\ UNCHANGED <<db, res, idx, val, out>>

\* one iteration of the tag loop
PrintTag ==
    /\ pc = "tags"
    /\ idx < Len(res)
    /\ LET row == res[idx + 1] IN
         /\ val' = row[2]
         /\ out' = Append(out, TagLine(row))
    /\ idx' = idx + 1
    /\ pc' = AfterRow("tags", "q_user")
    /\ UNCHANGED <<db, res, exc>>

\* one iteration of the identity loop
PrintIdentity ==
    /\ pc = "identities"
    /\ idx < Len(res)
    /\ out' = Append(out, IdentityLine(res[idx + 1]))
    /\ idx' = idx + 1
    /\ pc' = AfterRow("identities", "q_discussion")
    /\ UNCHANGED <<db, res, val, exc>>

\* PrintDiscussion that skips a row it cannot format and carries on
PrintDiscussionSkipsBadRow ==
    /\ pc = "discussions"
    /\ idx < Len(res)
    /\ LET row == res[idx + 1] IN
         IF DiscussionOk(row)
         THEN /\ val' = DiscussionVal(row)
              /\ out' = Append(out, DiscussionLine(row))
         ELSE UNCHANGED <<val, out>>
    /\ idx' = idx + 1
    /\ pc' = IF idx + 1 = Len(res) THEN "q_post" ELSE "discussions"
    /\ UNCHANGED <<db, res, exc>>

\* one iteration of the discussion loop
PrintDiscussion ==
    /\ pc = "discussions"
    /\ idx < Len(res)
    /\ LET row == res[idx + 1] IN
         IF DiscussionOk(row)
         THEN /\ val' = DiscussionVal(row)
              /\ out' = Append(out, DiscussionLine(row))
              /\ idx' = idx + 1
              /\ pc' = AfterRow("discussions", "q_post")
              /\ UNCHANGED exc
         ELSE /\ Abort("TypeError", 3, idx + 1)
              /\ UNCHANGED <<val, out, idx>>
    /\ UNCHANGED <<db, res>>

\* one iteration of the post loop
PrintPost ==
    /\ pc = "posts"
    /\ idx < Len(res)
    /\ LET row == res[idx + 1] IN
         IF PostOk(row)
         THEN /\ val' = PostVal(row)
              /\ out' = Append(out, PostLine(row))
              /\ idx' = idx + 1
              /\ pc' = AfterRow("posts", "done")
              /\ UNCHANGED exc
         ELSE /\ val' = row[2]
              /\ Abort("AttributeError", 4, idx + 1)
              /\ UNCHANGED <<out, idx>>
    /\ UNCHANGED <<db, res>>

Next ==
    \/ QueryFolder
    \/ QueryUser
    \/ QueryDiscussion
    \/ QueryPost
    \/ QueryFails
    \/ PrintTag
    \/ PrintIdentity
    \/ PrintDiscussion
    \/ PrintPost

Spec == Init /\ [][Next]_vars

SpecOneRow == InitOneRow /\ [][Next]_vars

TypeOK ==
    /\ pc \in {"q_folder", "tags", "q_user", "identities", "q_discussion",
               "discussions", "q_post", "posts", "done", "aborted"}
    /\ idx \in 0..Len(res)
    /\ (pc = "aborted") = (exc # NoExc)

----------------------------------------------------------------------------
(* Vocabulary of the properties                                            *)

Contains(s, sub) ==
    \E i \in 0..(Len(s) - Len(sub)) : SubSeq(s, i + 1, i + Len(sub)) = sub

IsPrefix(s, t) == Len(s) <= Len(t) /\ SubSeq(t, 1, Len(s)) = s

RECURSIVE Flatten(_)
Flatten(ss) == IF ss = <<>> THEN <<>> ELSE Head(ss) \o Flatten(Tail(ss))

\* the contract's substitution for one character; sq is what a single
\* quote becomes
ContractChar(c, sq) ==
    CASE c = NL -> <<BS, "n">>
      [] c = TAB -> <<BS, "t">>
      [] c = DQ -> <<BS, DQ>>
      [] c = SQ -> sq
      [] OTHER -> <<c>>

\* one pass over s, each character replaced independently
OnePass(s, sq) == Flatten([j \in 1..Len(s) |-> ContractChar(s[j], sq)])

\* the texts the contract allows for s when it is silent on single quotes
EscapedAs(s) == {OnePass(s, <<SQ>>), OnePass(s, <<BS, SQ>>)}

\* the text of a column as the statement must show it
Verbatim(x) ==
    CASE x.t = "str" -> x.v
      [] x.t = "None" -> <<"N", "o", "n", "e">>
      [] x = PyInt(3) -> <<"3">>
      [] x = PyInt(4) -> <<"4">>
      [] x = PyInt(7) -> <<"7">>
      [] x = PyInt(8) -> <<"8">>
      [] x = PyInt(55) -> <<"5", "5">>
      [] x = PyInt(56) -> <<"5", "6">>
      [] x = PyInt(101) -> <<"1", "0", "1">>
      [] x = PyInt(102) -> <<"1", "0", "2">>

\* statement formats: the fixed text around the fields, in order
TagFormat ==
    << <<"M", "E", "R", "G", "E", " ", "(", ":", "T", "a", "g", "{", "e", "x", "t", "I", "d", "=", "'">>,
       <<"'", ",", " ", "v", "a", "l", "u", "e", "=", "'">>,
       <<"'", "}", ")">> >>

IdentityFormat ==
    << <<"M", "E", "R", "G", "E", " ", "(", ":", "I", "d", "e", "n", "t", "i", "t", "y", ":", "U", "s", "e", "r", "{", "e", "x", "t", "I", "d", "=", "'">>,
       <<"'", ",", " ", "e", "m", "a", "i", "l", "=", "'">>,
       <<"'", ",", " ", "h", "a", "n", "d", "l", "e", "=", "'">>,
       <<"'", "}", ")">> >>

DiscussionFormat ==
    << <<"M", "E", "R", "G", "E", " ", "(", ":", "I", "d", "e", "n", "t", "i", "t", "y", ":", "U", "s", "e", "r", "{", "e", "x", "t", "I", "d", "=", "'">>,
       <<"'", "}", ")", "-", "[", "p", "o", "s", "t", "e", "d", "{", "c", "r", "e", "a", "t", "e", "d", "_", "a", "t", ":", "'">>,
       <<"'", "}", "]", "-", ">", "(", ":", "P", "o", "s", "t", "{", "e", "x", "t", "I", "d", "=", "'">>,
       <<"'", ",", " ", "v", "a", "l", "u", "e", "=", "'">>,
       <<"'", "}", ")", "-", "[", "i", "s", "_", "t", "a", "g", "g", "e", "d", "_", "w", "i", "t", "h", "]", "-", ">", "(", ":", "T", "a", "g", "{", "e", "x", "t", "I", "d", ":", " ", "'">>,
       <<"'", "}", ")">> >>

PostFormat ==
    << <<"M", "E", "R", "G", "E", " ", "(", ":", "I", "d", "e", "n", "t", "i", "t", "y", ":", "U", "s", "e", "r", "{", "e", "x", "t", "I", "d", "=", "'">>,
       <<"'", "}", ")", "-", "[", "p", "o", "s", "t", "e", "d", "{", "c", "r", "e", "a", "t", "e", "d", "_", "a", "t", ":", "'">>,
       <<"'", "}", "]", "-", ">", "(", ":", "P", "o", "s", "t", "{", "e", "x", "t", "I", "d", "=", "'">>,
       <<"'", ",", " ", "i", "n", "R", "e", "p", "l", "y", "T", "o", "E", "x", "t", "I", "d", "=", "'">>,
       <<"'", ",", " ", "v", "a", "l", "u", "e", "=", "'">>,
       <<"'", "}", ")">> >>

\* the format with its fields filled in: one more fixed part than fields
Fill(format, fields) ==
    Flatten([j \in 1..(2 * Len(fields) + 1) |->
                IF j % 2 = 1 THEN format[(j + 1) \div 2] ELSE fields[j \div 2]])

HasNull(row) == \E k \in 1..Len(row) : row[k] = None

\* position of the script in program order
Rank(p) ==
    CASE p = "q_folder" -> 1 [] p = "tags" -> 2
      [] p = "q_user" -> 3 [] p = "identities" -> 4
      [] p = "q_discussion" -> 5 [] p = "discussions" -> 6
      [] p = "q_post" -> 7 [] p = "posts" -> 8
      [] p = "done" -> 9

\* the loop of stream k is over: it ran on every row, or raised on one
LoopOver(k) ==
    IF pc = "aborted"
    THEN IF exc.type = "DatabaseError" THEN exc.stream > k ELSE exc.stream >= k
    ELSE Rank(pc) > 2 * k

\* the only row of a one-row table
Only(table) == table[1]

TagRan == Len(db.folder) = 1 /\ LoopOver(1)
IdentityRan == Len(db.user) = 1 /\ LoopOver(2)
DiscussionRan == Len(db.discussion) = 1 /\ LoopOver(3)
PostRan == Len(db.post) = 1 /\ LoopOver(4)

NoneText == <<"N", "o", "n", "e">>

\* the value property as it stands in a discussion or post statement
ValueField(e) == <<"v", "a", "l", "u", "e", "=", "'">> \o e \o <<"'", "}", ")">>

\* the body of a discussion row: title, two newlines, header
BodyOf(r) == r[2].v \o <<NL, NL>> \o r[3].v

NoChar(text, c) == \A j \in 1..Len(text) : text[j] # c

Count(text, c) == Cardinality({j \in 1..Len(text) : text[j] = c})

\* every occurrence of c in text has a backslash right before it
Backslashed(text, c) ==
    \A j \in 1..Len(text) : text[j] = c => (j > 1 /\ text[j - 1] = BS)

DiscussionStatement(r, e) ==
    Fill(DiscussionFormat, <<Verbatim(r[5]), Verbatim(r[6]), Verbatim(r[1]), e, Verbatim(r[4])>>)

PostStatement(r, e) ==
    Fill(PostFormat, <<Verbatim(r[3]), Verbatim(r[4]), Verbatim(r[1]), Verbatim(r[5]), e>>)

----------------------------------------------------------------------------
(* Properties of a run on a one-row database (SpecOneRow)                  *)

\* C1: the value emitted for a discussion or post body is the body with
\* newline -> \n, tab -> \t, double quote -> \" and every character other
\* than newline, tab, single quote and double quote unchanged, in order
C1_EscapeContract ==
    /\ (DiscussionRan /\ DiscussionOk(Only(db.discussion))) =>
          \E e \in EscapedAs(BodyOf(Only(db.discussion))) :
              /\ val = PyStr(e)
              /\ Len(out) = 1 /\ Contains(out[1], ValueField(e))
    /\ (PostRan /\ PostOk(Only(db.post))) =>
          \E e \in EscapedAs(Only(db.post)[2].v) :
              /\ val = PyStr(e)
              /\ Len(out) = 1 /\ Contains(out[1], ValueField(e))

C1_Witness ==
    /\ PostRan
    /\ Only(db.post)[2] = PyStr(<<NL, TAB, DQ>>)
    /\ val = PyStr(<<BS, "n", BS, "t", BS, DQ>>)
    /\ Len(out) = 1

\* C2: every single quote of a discussion or post body appears in the
\* emitted value preceded by a backslash
C2_SingleQuoteEscaped ==
    /\ (DiscussionRan /\ DiscussionOk(Only(db.discussion))) =>
          /\ Backslashed(val.v, SQ)
          /\ Count(val.v, SQ) = Count(BodyOf(Only(db.discussion)), SQ)
    /\ (PostRan /\ PostOk(Only(db.post))) =>
          /\ Backslashed(val.v, SQ)
          /\ Count(val.v, SQ) = Count(Only(db.post)[2].v, SQ)

\* C4: a tag row and an identity row are emitted in exactly their formats,
\* every field verbatim between single quotes, nothing escaped
C4_TagIdentityVerbatim ==
    /\ (TagRan /\ ~HasNull(Only(db.folder))) =>
          LET r == Only(db.folder)
          IN  out = <<Fill(TagFormat, <<Verbatim(r[1]), Verbatim(r[2])>>)>>
    /\ (IdentityRan /\ ~HasNull(Only(db.user))) =>
          LET r == Only(db.user)
          IN  out = <<Fill(IdentityFormat, <<Verbatim(r[1]), Verbatim(r[2]), Verbatim(r[3])>>)>>

C4_Witness ==
    /\ TagRan
    /\ Only(db.folder) = <<PyInt(7), PyStr(<<SQ, DQ, NL>>)>>
    /\ Len(out) = 1
    /\ Contains(out[1], <<"=", "'", SQ, DQ, NL, "'">>)

\* C5: a post row is emitted in exactly the post format, the body escaped,
\* the other fields unescaped and each in its place, the reply target being
\* the discussion_id column
C5_PostStatement ==
    (PostRan /\ PostOk(Only(db.post)) /\ ~HasNull(Only(db.post))) =>
        \E e \in EscapedAs(Only(db.post)[2].v) :
            out = <<PostStatement(Only(db.post), e)>>

C5_Witness ==
    /\ PostRan
    /\ Only(db.post) = <<PyInt(101), PyStr(<<"a", NL, "a">>), PyInt(3), Date0, PyInt(55)>>
    /\ Len(out) = 1
    /\ Contains(out[1], <<"I", "d", "=", "'", "5", "5", "'", ",", " ", "v", "a", "l", "u", "e", "=", "'", "a", BS, "n", "a", "'">>)

\* C6: a discussion body is title, exactly two newlines, header, formed
\* before escaping (the separator comes out as \n\n), and the row is
\* emitted in exactly the discussion format, the Tag key written "extId: "
C6_DiscussionStatement ==
    (DiscussionRan /\ DiscussionOk(Only(db.discussion)) /\ ~HasNull(Only(db.discussion))) =>
        LET r == Only(db.discussion)
        IN  /\ \E e \in EscapedAs(BodyOf(r)) : out = <<DiscussionStatement(r, e)>>
            /\ \E et \in EscapedAs(r[2].v), eh \in EscapedAs(r[3].v) :
                  val = PyStr(et \o <<BS, "n", BS, "n">> \o eh)

C6_Witness ==
    /\ DiscussionRan
    /\ Only(db.discussion)[2] = PyStr(<<"a", DQ>>)
    /\ Only(db.discussion)[3] = PyStr(<<"H">>)
    /\ val = PyStr(<<"a", BS, DQ, BS, "n", BS, "n", "H">>)
    /\ Len(out) = 1
    /\ Contains(out[1], <<"(", ":", "T", "a", "g", "{", "e", "x", "t", "I", "d", ":", " ", "'", "7", "'", "}", ")">>)

\* the id and timestamp columns ks of row r hold none of the characters cs
IdsFree(r, ks, cs) == \A k \in ks : \A c \in cs : NoChar(Verbatim(r[k]), c)

DiscussionIds == {1, 4, 5, 6}
PostIds == {1, 3, 4, 5}

\* C7: a row with a null field still produces one statement, the null
\* shown as None, also for a null title, a null header and a null text
C7_NullGivesNone ==
    /\ (TagRan /\ HasNull(Only(db.folder))) =>
          (Len(out) = 1 /\ Contains(out[1], NoneText))
    /\ (IdentityRan /\ HasNull(Only(db.user))) =>
          (Len(out) = 1 /\ Contains(out[1], NoneText))
    /\ (DiscussionRan /\ HasNull(Only(db.discussion))) =>
          (Len(out) = 1 /\ Contains(out[1], NoneText))
    /\ (PostRan /\ HasNull(Only(db.post))) =>
          (Len(out) = 1 /\ Contains(out[1], NoneText))

\* C7 (amended): a null in a column that is only interpolated is shown as
\* None in that column's place of the row's one statement; a null title,
\* header or post text raises, and the run ends with no statement for the row
C7_NullInterpolatedOrAbort ==
    /\ (TagRan /\ HasNull(Only(db.folder))) =>
          LET r == Only(db.folder)
          IN  out = <<Fill(TagFormat, <<Verbatim(r[1]), Verbatim(r[2])>>)>>
    /\ (IdentityRan /\ HasNull(Only(db.user))) =>
          LET r == Only(db.user)
          IN  out = <<Fill(IdentityFormat, <<Verbatim(r[1]), Verbatim(r[2]), Verbatim(r[3])>>)>>
    /\ (DiscussionRan /\ HasNull(Only(db.discussion))) =>
          LET r == Only(db.discussion)
          IN  IF r[2] # None /\ r[3] # None
              THEN \E e \in EscapedAs(BodyOf(r)) : out = <<DiscussionStatement(r, e)>>
              ELSE pc = "aborted" /\ exc = Raised("TypeError", 3, 1) /\ out = <<>>
    /\ (PostRan /\ HasNull(Only(db.post))) =>
          LET r == Only(db.post)
          IN  IF r[2] # None
              THEN \E e \in EscapedAs(r[2].v) : out = <<PostStatement(r, e)>>
              ELSE pc = "aborted" /\ exc = Raised("AttributeError", 4, 1) /\ out = <<>>

C7_Witness ==
    /\ PostRan
    /\ Only(db.post) = <<PyInt(101), PyStr(<<"a">>), None, Date0, PyInt(55)>>
    /\ Len(out) = 1
    /\ IsPrefix(<<"M", "E", "R", "G", "E", " ", "(", ":", "I", "d", "e", "n", "t", "i", "t", "y", ":", "U", "s", "e", "r", "{", "e", "x", "t", "I", "d", "=", "'", "N", "o", "n", "e", "'">>, out[1])

\* C8: when the ids and timestamp of a discussion or post row hold no
\* newline, its statement holds no newline and no tab whatever the body,
\* and every double quote of its value follows a backslash
C8_OneLine ==
    /\ (DiscussionRan /\ DiscussionOk(Only(db.discussion))
            /\ IdsFree(Only(db.discussion), DiscussionIds, {NL})) =>
          /\ Len(out) = 1
          /\ NoChar(out[1], NL) /\ NoChar(out[1], TAB)
          /\ Backslashed(val.v, DQ)
    /\ (PostRan /\ PostOk(Only(db.post)) /\ IdsFree(Only(db.post), PostIds, {NL})) =>
          /\ Len(out) = 1
          /\ NoChar(out[1], NL) /\ NoChar(out[1], TAB)
          /\ Backslashed(val.v, DQ)

\* C8 (amended): the same when the ids and timestamp hold neither a
\* newline nor a tab
C8_OneLineCleanIds ==
    /\ (DiscussionRan /\ DiscussionOk(Only(db.discussion))
            /\ IdsFree(Only(db.discussion), DiscussionIds, {NL, TAB})) =>
          /\ Len(out) = 1
          /\ NoChar(out[1], NL) /\ NoChar(out[1], TAB)
          /\ Backslashed(val.v, DQ)
    /\ (PostRan /\ PostOk(Only(db.post)) /\ IdsFree(Only(db.post), PostIds, {NL, TAB})) =>
          /\ Len(out) = 1
          /\ NoChar(out[1], NL) /\ NoChar(out[1], TAB)
          /\ Backslashed(val.v, DQ)

C8_Witness ==
    /\ DiscussionRan
    /\ Only(db.discussion)[2] = PyStr(<<NL, TAB, DQ>>)
    /\ Only(db.discussion)[3] = PyStr(<<NL>>)
    /\ IdsFree(Only(db.discussion), DiscussionIds, {NL, TAB})
    /\ Len(out) = 1
    /\ NoChar(out[1], NL) /\ NoChar(out[1], TAB)

\* what the chain's pairs make of one character taken alone
PairChar(c) ==
    LET ks == {k \in 1..Len(ReplacePairs) : ReplacePairs[k][1] = <<c>>}
    IN  IF ks = {} THEN <<c>> ELSE ReplacePairs[CHOOSE k \in ks : TRUE][2]

ChainIsOnePass(body, e) ==
    /\ e = Flatten([j \in 1..Len(body) |-> PairChar(body[j])])
    /\ (\A j \in 1..Len(body) : body[j] \in {BS, "a"}) => e = body

\* C10: the four sequential replacements give what replacing each
\* character of the body independently in one pass gives, and a backslash
\* of the body passes through unchanged
C10_ChainIsOnePass ==
    /\ (DiscussionRan /\ DiscussionOk(Only(db.discussion))) =>
          ChainIsOnePass(BodyOf(Only(db.discussion)), val.v)
    /\ (PostRan /\ PostOk(Only(db.post))) =>
          ChainIsOnePass(Only(db.post)[2].v, val.v)

C10_Witness ==
    /\ PostRan
    /\ Only(db.post)[2] = PyStr(<<BS, TAB, BS>>)
    /\ val = PyStr(<<BS, BS, "t", BS>>)

----------------------------------------------------------------------------
(* Properties of a run on a multi-row database (Spec)                      *)

\* the rows each query delivers, in delivery order, tagged with the stream
Delivered(k) ==
    CASE k = 1 -> db.folder
      [] k = 2 -> Take(db.user, Limit)
      [] k = 3 -> Take(db.discussion, Limit)
      [] k = 4 -> Take(db.post, Limit)

AllRows ==
    Flatten([k \in 1..4 |-> [j \in 1..Len(Delivered(k)) |-> <<k, Delivered(k)[j]>>]])

\* number of rows delivered by the streams before k
RowsBefore(k) ==
    Len(Flatten([j \in 1..(k - 1) |-> Delivered(j)]))

\* the statement of a well-formed row of stream k
StatementOf(k, r) ==
    CASE k = 1 -> Fill(TagFormat, <<Verbatim(r[1]), Verbatim(r[2])>>)
      [] k = 2 -> Fill(IdentityFormat, <<Verbatim(r[1]), Verbatim(r[2]), Verbatim(r[3])>>)
      [] k = 3 -> DiscussionStatement(r, OnePass(BodyOf(r), <<SQ>>))
      [] k = 4 -> PostStatement(r, OnePass(r[2].v, <<SQ>>))

\* a row whose formatting raises: null title, header or post text
Malformed(k, r) ==
    \/ k = 3 /\ (r[2] = None \/ r[3] = None)
    \/ k = 4 /\ r[2] = None

\* the statements of the first n rows of the run
Statements(n) ==
    LET rows == AllRows
    IN  [j \in 1..n |-> StatementOf(rows[j][1], rows[j][2])]

\* number of rows ahead of the first malformed one
GoodRows ==
    LET rows == AllRows
        bad == {j \in 1..Len(rows) : Malformed(rows[j][1], rows[j][2])}
    IN  IF bad = {} THEN Len(rows)
        ELSE (CHOOSE j \in bad : \A i \in bad : j <= i) - 1

NoNulls == \A j \in 1..Len(AllRows) : ~HasNull(AllRows[j][2])

\* C3: a run that completes on rows without nulls emits exactly one tag
\* statement per folder row, then one identity statement per user row,
\* then the discussions, then the posts, each stream in delivery order,
\* nothing skipped, duplicated or reordered, no stream ahead of an earlier
C3_StreamOrder ==
    (NoNulls /\ pc # "aborted") =>
        LET k == (Rank(pc) + 1) \div 2
        IN  /\ IsPrefix(out, Statements(Len(AllRows)))
            /\ Rank(pc) % 2 = 1 => Len(out) = RowsBefore(k)
            /\ Rank(pc) % 2 = 0 => Len(out) = RowsBefore(k) + idx
            /\ pc = "done" => out = Statements(Len(AllRows))

C3_Witness ==
    /\ pc = "done"
    /\ NoNulls
    /\ Len(db.folder) = 2 /\ db.folder[1] # db.folder[2]
    /\ Len(db.user) = 1 /\ Len(db.discussion) = 1 /\ Len(db.post) = 1
    /\ Len(out) = 5

C9_State ==
    /\ IsPrefix(out, Statements(GoodRows))
    /\ pc = "done" => GoodRows = Len(AllRows)
    /\ exc.type = "DatabaseError" =>
          (RowsBefore(exc.stream) <= GoodRows /\ out = Statements(RowsBefore(exc.stream)))
    /\ exc.type \in {"TypeError", "AttributeError"} =>
          /\ GoodRows < Len(AllRows)
          /\ out = Statements(GoodRows)
          /\ GoodRows + 1 = RowsBefore(exc.stream) + exc.row
          /\ AllRows[GoodRows + 1][1] = exc.stream

\* C9: a failure aborts the run with no rollback and no recovery: when the
\* query of stream k fails the output is, and stays, exactly the statements
\* of the streams before k; when formatting a row fails the output is, and
\* stays, exactly the statements of the rows before it
C9_AbortKeepsOutput ==
    [](C9_State) /\ [][pc = "aborted" => (pc' = "aborted" /\ out' = out)]_vars

C9_Witness ==
    /\ pc = "aborted"
    /\ exc = Raised("TypeError", 3, 2)
    /\ Len(db.folder) = 1 /\ Len(db.user) = 1
    /\ Len(db.discussion) = 2 /\ db.post # <<>>
    /\ Len(out) = 3

====
